---- MODULE Spec2Model ----
(***************************************************************************)
(* Model of scripts/sprint_close.py: the three payload builders            *)
(* (get_duplicate_name, generate_memberships, generate_custom_fields) and  *)
(* the sprint-close batch (duplicate_tasks over OTHER_GIDS, then           *)
(* complete_tasks on the done section) run against the remote task         *)
(* service.                                                                *)
(*                                                                         *)
(* Python values are represented as follows.                               *)
(*   str (task names)      a sequence of one-character strings             *)
(*   opaque ids (gids)     TLA+ strings                                    *)
(*   None | int | str      a record [t, n, s] built by PyNone, PyInt,      *)
(*                         PyStr (one shape, so any two values compare)    *)
(*   a call's outcome      [exc |-> "", value |-> v] on return,            *)
(*                         [exc |-> "<Error>", value |-> <<>>] on raise    *)
(***************************************************************************)
EXTENDS Integers, Sequences, FiniteSets, TLC

VARIABLES
    fn_arg,     \* argument of the payload builder under test
    fn_ret,     \* its outcome
    pc,         \* position of the __main__ batch
    exc,        \* the exception that ended the batch ("" while none)
    sec_idx,    \* index into OTHER_GIDS of the section being duplicated
    section,    \* tasks of the current listing not yet handled
    remote,     \* the remote service's task records, by gid
    remote0,    \* the remote service's task records when the batch started
    listed,     \* gids returned so far by get_tasks, by section gid
    calls       \* every remote request submitted so far, in order

vars == <<fn_arg, fn_ret, pc, exc, sec_idx, section, remote, remote0, listed, calls>>

----------------------------------------------------------------------------
(* Bounds of the model *)

MaxNameLen == 6

MaxMemberships == 3

MaxFields == 3

NumTasks == 2

----------------------------------------------------------------------------
(* Python values *)

PyNone == [t |-> "None", n |-> 0, s |-> ""]

PyInt(i) == [t |-> "int", n |-> i, s |-> ""]

PyStr(x) == [t |-> "str", n |-> 0, s |-> x]

Return(v) == [exc |-> "", value |-> v]

Raise(e) == [exc |-> e, value |-> <<>>]

NotCalled == [exc |-> "NotCalled", value |-> <<>>]

SeqsUpTo(S, n) == UNION {[1..k -> S] : k \in 0..n}

----------------------------------------------------------------------------
(* get_duplicate_name *)

Digits == <<"0", "1", "2", "3", "4", "5", "6", "7", "8", "9">>

IsDigit(c) == \E i \in 1..Len(Digits) : Digits[i] = c

DigitVal(c) == (CHOOSE i \in 1..Len(Digits) : Digits[i] = c) - 1

\* int(s) for a string of ASCII digits: ValueError on the empty string.
RECURSIVE DecimalValue(_)
DecimalValue(s) ==
    IF s = <<>> THEN 0
    ELSE 10 * DecimalValue(SubSeq(s, 1, Len(s) - 1)) + DigitVal(s[Len(s)])

py_int(s) == IF s = <<>> THEN Raise("ValueError") ELSE Return(DecimalValue(s))

\* str(n) for n >= 0: the decimal digits, no leading zero.
RECURSIVE py_str(_)
py_str(n) ==
    IF n < 10 THEN <<Digits[n + 1]>>
    ELSE py_str(n \div 10) \o <<Digits[(n % 10) + 1]>>

\* re.compile(r"^\[(?P<number>[0-9]{0,2})\]").match(name): <<>> for None, else
\* <<group('number')>>.  At most one k fits, "]" being no digit.
DUPLICATED_TASK_PREFIX(name) ==
    LET fits(k) == /\ Len(name) >= k + 2
                   /\ name[1] = "["
                   /\ \A i \in 2..(k + 1) : IsDigit(name[i])
                   /\ name[k + 2] = "]"
    IN  IF \E k \in 0..2 : fits(k)
        THEN <<SubSeq(name, 2, (CHOOSE k \in 0..2 : fits(k)) + 1)>>
        ELSE <<>>

\* name[4:]
DropFour(name) == SubSeq(name, 5, Len(name))

get_duplicate_name_keeps_a_char(name) ==
    LET match == DUPLICATED_TASK_PREFIX(name) IN
    IF match = <<>> THEN Return(<<"[", "1", "]", " ">> \o name)
    ELSE LET number == py_int(match[1]) IN
         IF number.exc # "" THEN number
         ELSE Return(<<"[">> \o py_str(number.value + 1) \o <<"]", " ">>
                     \o SubSeq(name, 4, Len(name)))

get_duplicate_name(name) ==
    LET match == DUPLICATED_TASK_PREFIX(name) IN
    IF match = <<>> THEN Return(<<"[", "1", "]", " ">> \o name)
    ELSE LET number == py_int(match[1]) IN
         IF number.exc # "" THEN number
         ELSE Return(<<"[">> \o py_str(number.value + 1) \o <<"]", " ">>
                     \o DropFour(name))

----------------------------------------------------------------------------
(* Configuration: the opaque ids __main__ reads from the environment *)

SPRINTS_PROJECT_GID == "sprints_project"

BACKLOG_GID == "backlog"

DONE_GID == "done"

OTHER_GIDS == <<"sprint_backlog", "in_progress", "blocked", "under_review">>

EXPECTED_FIELD_GID == "expected_cost"

ACTUAL_FIELD_GID == "actual_cost"

SPRINT_NUMBER_FIELD_GID == "sprint_number"

----------------------------------------------------------------------------
(* generate_memberships *)

\* One membership of the remote task: {"project": {"gid": p}, "section": {"gid": s}}
RawMembership(p, s) == [project |-> [gid |-> p], section |-> [gid |-> s]]

MembershipFor_keeps_section(membership, sprints_project_gid, backlog_gid) ==
    [project |-> membership.project.gid, section |-> membership.section.gid]

\* The body of the for loop: what is appended for one membership.
MembershipFor(membership, sprints_project_gid, backlog_gid) ==
    IF membership.project.gid = sprints_project_gid
    THEN [project |-> sprints_project_gid, section |-> backlog_gid]
    ELSE [project |-> membership.project.gid, section |-> membership.section.gid]

RECURSIVE MembershipsLoop(_, _, _, _)
MembershipsLoop(raw, memberships, sprints_project_gid, backlog_gid) ==
    IF raw = <<>> THEN memberships
    ELSE MembershipsLoop(
             Tail(raw),
             Append(memberships,
                    MembershipFor(Head(raw), sprints_project_gid, backlog_gid)),
             sprints_project_gid, backlog_gid)

generate_memberships(task, sprints_project_gid, backlog_gid) ==
    MembershipsLoop(task.memberships, <<>>, sprints_project_gid, backlog_gid)

----------------------------------------------------------------------------
(* generate_custom_fields *)

\* A reference to a remote object (a chosen enum option, an assignee): {"gid": gid}
PyGidDict(gid) == [t |-> "dict", n |-> 0, s |-> gid]

\* One custom field of the remote task.  A value key of another kind is None.
CustomField(gid, type, number_value, enum_value, text_value) ==
    [gid |-> gid, type |-> type, number_value |-> number_value,
     enum_value |-> enum_value, text_value |-> text_value]

\* custom_fields[key] = value
DictSet(d, key, value) ==
    [k \in DOMAIN d \cup {key} |-> IF k = key THEN value ELSE d[k]]

UnknownKind_skipped(st) == st

\* assert False, "Something did not work as expected."
UnknownKind(st) == [st EXCEPT !.exc = "AssertionError"]

\* The body of the for loop over raw; st holds custom_fields, expected, actual.
CustomFieldStep(custom_field, st, expected_field_gid, actual_field_gid, sprint_number_field_gid) ==
    IF custom_field.gid = expected_field_gid THEN
        IF custom_field.number_value = PyNone THEN st
        ELSE [st EXCEPT !.expected = custom_field.number_value.n]
    ELSE IF custom_field.gid = actual_field_gid THEN
        IF custom_field.number_value = PyNone THEN st
        ELSE [st EXCEPT !.actual = custom_field.number_value.n]
    ELSE IF custom_field.gid = sprint_number_field_gid THEN st
    ELSE IF custom_field.type = "enum" THEN
        IF custom_field.enum_value = PyNone THEN st
        ELSE [st EXCEPT !.custom_fields =
                 DictSet(@, custom_field.gid, PyStr(custom_field.enum_value.s))]
    ELSE IF custom_field.type = "text" THEN
        [st EXCEPT !.custom_fields =
            DictSet(@, custom_field.gid, custom_field.text_value)]
    ELSE IF custom_field.type = "number" THEN
        [st EXCEPT !.custom_fields =
            DictSet(@, custom_field.gid, custom_field.number_value)]
    ELSE UnknownKind(st)

RECURSIVE CustomFieldsLoop(_, _, _, _, _)
CustomFieldsLoop(raw, st, expected_field_gid, actual_field_gid, sprint_number_field_gid) ==
    IF raw = <<>> \/ st.exc # "" THEN st
    ELSE CustomFieldsLoop(
             Tail(raw),
             CustomFieldStep(Head(raw), st, expected_field_gid, actual_field_gid,
                             sprint_number_field_gid),
             expected_field_gid, actual_field_gid, sprint_number_field_gid)

RemainingCost_unfloored(expected, actual) == expected - actual

\* expected - actual if actual < expected else 0
RemainingCost(expected, actual) ==
    IF actual < expected THEN expected - actual ELSE 0

generate_custom_fields(task, expected_field_gid, actual_field_gid, sprint_number_field_gid) ==
    LET st == CustomFieldsLoop(
                  task.custom_fields,
                  [custom_fields |-> <<>>, expected |-> 0, actual |-> 0, exc |-> ""],
                  expected_field_gid, actual_field_gid, sprint_number_field_gid)
    IN  IF st.exc # "" THEN Raise(st.exc)
        ELSE Return(DictSet(st.custom_fields, expected_field_gid,
                            PyInt(RemainingCost(st.expected, st.actual))))

----------------------------------------------------------------------------
(* The remote task service, as asana_client.tasks sees it *)

\* get_tasks(params={"section": section_gid}): the gids of the tasks placed there.
TasksInSection(r, section_gid) ==
    {g \in DOMAIN r :
        \E i \in 1..Len(r[g].memberships) :
            r[g].memberships[i].section.gid = section_gid}

\* The orders in which the service may list a set of tasks.
Listings(gids) ==
    {l \in [1..Cardinality(gids) -> gids] :
        \A i, j \in 1..Cardinality(gids) : l[i] = l[j] => i = j}

\* One listed task, with the requested opt_fields.
ListedTask(r, g) ==
    [gid |-> g, name |-> r[g].name, assignee |-> r[g].assignee,
     memberships |-> r[g].memberships, custom_fields |-> r[g].custom_fields]

RECURSIVE AsRawMemberships(_)
AsRawMemberships(memberships) ==
    IF memberships = <<>> THEN <<>>
    ELSE <<RawMembership(Head(memberships).project, Head(memberships).section)>>
         \o AsRawMemberships(Tail(memberships))

\* create_in_workspace(workspace_gid, task): the service stores the task under
\* a new gid.  dup_of records which task the request was built from; the
\* service does not see it.
create_in_workspace(r, new_gid, task, dup_of) ==
    DictSet(r, new_gid,
            [name |-> task.name, assignee |-> task.assignee,
             memberships |-> AsRawMemberships(task.memberships),
             custom_fields |-> task.custom_fields,
             completed |-> FALSE, dup_of |-> dup_of])

\* delete_task(task_gid=gid)
delete_task(r, gid) == [g \in DOMAIN r \ {gid} |-> r[g]]

\* update_task(gid, fields): the given fields replace the task's, the others stay.
update_task(r, gid, fields) ==
    IF gid \notin DOMAIN r THEN r
    ELSE [r EXCEPT ![gid] =
             [f \in DOMAIN r[gid] |->
                 IF f \in DOMAIN fields THEN fields[f] ELSE r[gid][f]]]

\* One entry of the request log.
Request(op, section_gid, task_gid, dup_of, payload, ok) ==
    [op |-> op, section |-> section_gid, task_gid |-> task_gid,
     dup_of |-> dup_of, payload |-> payload, ok |-> ok]

\* A gid the service has not used yet.
NewGid == NumTasks + Len(calls) + 1

----------------------------------------------------------------------------
(* __main__, duplicate_tasks and complete_tasks *)

Uncaught_retried(e) == UNCHANGED <<pc, exc>>

\* No try/except anywhere: an exception leaves every loop and ends the run.
Uncaught(e) == pc' = "raised" /\ exc' = e

\* The for loop of __main__ moves to the next section, or to complete_tasks.
AfterSection(rest) ==
    IF rest # <<>> THEN pc' = "dup_create" /\ sec_idx' = sec_idx
    ELSE pc' = "main" /\ sec_idx' = sec_idx + 1

\* duplicate_tasks: section = asana_client.tasks.get_tasks(...)
GetTasksToDuplicate ==
    /\ pc = "main"
    /\ sec_idx <= Len(OTHER_GIDS)
    /\ LET section_gid == OTHER_GIDS[sec_idx] IN
       \/ \E l \in Listings(TasksInSection(remote, section_gid)) :
             /\ section' = [i \in 1..Len(l) |-> ListedTask(remote, l[i])]
             /\ listed' = DictSet(listed, section_gid, l)
             /\ calls' = Append(calls,
                            Request("get_tasks", section_gid, 0, 0, <<>>, TRUE))
             /\ AfterSection(l)
             /\ exc' = exc
       \/ /\ calls' = Append(calls,
                         Request("get_tasks", section_gid, 0, 0, <<>>, FALSE))
          /\ Uncaught("RemoteError")
          /\ UNCHANGED <<section, listed, sec_idx>>
    /\ UNCHANGED <<fn_arg, fn_ret, remote, remote0>>

\* duplicate_tasks: one pass of the for loop up to the create request.
\* propagate says whether a failed create request leaves the loop.
CreateDuplicateStep(propagate) ==
    /\ pc = "dup_create"
    /\ LET task == Head(section)
           task_name == get_duplicate_name(task.name)
           task_memberships ==
               generate_memberships(task, SPRINTS_PROJECT_GID, BACKLOG_GID)
           task_custom_fields ==
               generate_custom_fields(task, EXPECTED_FIELD_GID, ACTUAL_FIELD_GID,
                                      SPRINT_NUMBER_FIELD_GID)
           payload == [name |-> task_name.value, assignee |-> task.assignee,
                       memberships |-> task_memberships,
                       custom_fields |-> task_custom_fields.value]
       IN  IF task_name.exc # "" THEN
               /\ Uncaught(task_name.exc)
               /\ UNCHANGED <<remote, calls>>
           ELSE IF task_custom_fields.exc # "" THEN
               /\ Uncaught(task_custom_fields.exc)
               /\ UNCHANGED <<remote, calls>>
           ELSE
               \/ /\ remote' = create_in_workspace(remote, NewGid, payload, task.gid)
                  /\ calls' = Append(calls,
                                 Request("create_in_workspace", "", 0, task.gid,
                                         payload, TRUE))
                  /\ pc' = "dup_delete"
                  /\ exc' = exc
               \/ /\ \E applied \in BOOLEAN :
                         remote' = IF applied
                                   THEN create_in_workspace(remote, NewGid, payload,
                                                            task.gid)
                                   ELSE remote
                  /\ calls' = Append(calls,
                                 Request("create_in_workspace", "", 0, task.gid,
                                         payload, FALSE))
                  /\ IF propagate THEN Uncaught("RemoteError")
                     ELSE pc' = "dup_delete" /\ exc' = exc
    /\ UNCHANGED <<fn_arg, fn_ret, sec_idx, section, remote0, listed>>

CreateDuplicate_swallows_error == CreateDuplicateStep(FALSE)

CreateDuplicate == CreateDuplicateStep(TRUE)

\* duplicate_tasks: client.tasks.delete_task(task_gid=task_gid), then the next
\* pass of the loop (client is the same object as asana_client under __main__).
DeleteOriginal ==
    /\ pc = "dup_delete"
    /\ LET task_gid == Head(section).gid IN
       \/ /\ remote' = delete_task(remote, task_gid)
          /\ calls' = Append(calls,
                         Request("delete_task", "", task_gid, 0, <<>>, TRUE))
          /\ section' = Tail(section)
          /\ AfterSection(Tail(section))
          /\ exc' = exc
       \/ /\ \E applied \in BOOLEAN :
                 remote' = IF applied THEN delete_task(remote, task_gid) ELSE remote
          /\ calls' = Append(calls,
                         Request("delete_task", "", task_gid, 0, <<>>, FALSE))
          /\ Uncaught("RemoteError")
          /\ UNCHANGED <<section, sec_idx>>
    /\ UNCHANGED <<fn_arg, fn_ret, remote0, listed>>

\* complete_tasks: section = asana_client.tasks.get_tasks(params={"section": ...})
GetTasksToComplete ==
    /\ pc = "main"
    /\ sec_idx > Len(OTHER_GIDS)
    /\ \/ \E l \in Listings(TasksInSection(remote, DONE_GID)) :
             /\ section' = [i \in 1..Len(l) |-> ListedTask(remote, l[i])]
             /\ listed' = DictSet(listed, DONE_GID, l)
             /\ calls' = Append(calls,
                            Request("get_tasks", DONE_GID, 0, 0, <<>>, TRUE))
             /\ pc' = IF l # <<>> THEN "complete_update" ELSE "done"
             /\ exc' = exc
       \/ /\ calls' = Append(calls,
                         Request("get_tasks", DONE_GID, 0, 0, <<>>, FALSE))
          /\ Uncaught("RemoteError")
          /\ UNCHANGED <<section, listed>>
    /\ UNCHANGED <<fn_arg, fn_ret, sec_idx, remote, remote0>>

CompletedFields_clears_assignee == [completed |-> TRUE, assignee |-> PyNone]

\* {"completed": True}
CompletedFields == [completed |-> TRUE]

\* complete_tasks: one pass of the for loop.
CompleteTask ==
    /\ pc = "complete_update"
    /\ LET task_gid == Head(section).gid IN
       \/ /\ remote' = update_task(remote, task_gid, CompletedFields)
          /\ calls' = Append(calls,
                         Request("update_task", "", task_gid, 0, CompletedFields,
                                 TRUE))
          /\ section' = Tail(section)
          /\ pc' = IF Tail(section) # <<>> THEN "complete_update" ELSE "done"
          /\ exc' = exc
       \/ /\ \E applied \in BOOLEAN :
                 remote' = IF applied
                           THEN update_task(remote, task_gid, CompletedFields)
                           ELSE remote
          /\ calls' = Append(calls,
                         Request("update_task", "", task_gid, 0, CompletedFields,
                                 FALSE))
          /\ Uncaught("RemoteError")
          /\ UNCHANGED section
    /\ UNCHANGED <<fn_arg, fn_ret, sec_idx, remote0, listed>>

----------------------------------------------------------------------------
(* The tasks the remote service holds when the batch starts *)

Name_W == <<"W">>

Name_9_W == <<"[", "9", "]", " ", "W">>

Name_1_W == <<"[", "1", "]", " ", "W">>

Name_empty_brackets_W == <<"[", "]", " ", "W">>

\* What a task may look like, apart from its placement on the sprint board.
TaskContents ==
    { [name |-> Name_W, assignee |-> PyGidDict("user1"),
       custom_fields |->
           <<CustomField(EXPECTED_FIELD_GID, "number", PyInt(5), PyNone, PyNone),
             CustomField(ACTUAL_FIELD_GID, "number", PyInt(2), PyNone, PyNone),
             CustomField(SPRINT_NUMBER_FIELD_GID, "number", PyInt(2), PyNone, PyNone),
             CustomField("priority", "enum", PyNone, PyGidDict("opt1"), PyNone)>>,
       elsewhere |-> <<RawMembership("other_project", "other_section")>>],
      [name |-> Name_9_W, assignee |-> PyNone,
       custom_fields |->
           <<CustomField(EXPECTED_FIELD_GID, "number", PyNone, PyNone, PyNone),
             CustomField("priority", "text", PyNone, PyNone, PyStr("t"))>>,
       elsewhere |-> <<>>],
      [name |-> Name_empty_brackets_W, assignee |-> PyNone,
       custom_fields |-> <<>>,
       elsewhere |-> <<>>],
      [name |-> Name_1_W, assignee |-> PyGidDict("user1"),
       custom_fields |->
           <<CustomField("priority", "date", PyNone, PyNone, PyNone)>>,
       elsewhere |-> <<>>] }

\* The sections of the sprint board a task may be placed in.
BoardSections ==
    {OTHER_GIDS[i] : i \in 1..Len(OTHER_GIDS)} \cup {DONE_GID, BACKLOG_GID}

RemoteTasks ==
    { [name |-> c.name, assignee |-> c.assignee,
       memberships |-> <<RawMembership(SPRINTS_PROJECT_GID, s)>> \o c.elsewhere,
       custom_fields |-> c.custom_fields,
       completed |-> FALSE, dup_of |-> 0] :
      c \in TaskContents, s \in BoardSections }

Init ==
    /\ fn_arg = <<>>
    /\ fn_ret = NotCalled
    /\ pc = "main"
    /\ exc = ""
    /\ sec_idx = 1
    /\ section = <<>>
    /\ remote \in [1..NumTasks -> RemoteTasks]
    /\ remote0 = remote
    /\ listed = <<>>
    /\ calls = <<>>

Next ==
    \/ GetTasksToDuplicate
    \/ CreateDuplicate
    \/ DeleteOriginal
    \/ GetTasksToComplete
    \/ CompleteTask

Spec == Init /\ [][Next]_vars

----------------------------------------------------------------------------
(* The batch is idle while a payload builder is checked on its own. *)

Idle ==
    /\ pc = "idle"
    /\ exc = ""
    /\ sec_idx = 0
    /\ section = <<>>
    /\ remote = <<>>
    /\ remote0 = <<>>
    /\ listed = <<>>
    /\ calls = <<>>

batch_vars == <<pc, exc, sec_idx, section, remote, remote0, listed, calls>>

\* Names over an alphabet holding the characters the pattern tells apart.
NameChars == {"[", "]", " ", "0", "2", "9", "W"}

InitName ==
    /\ fn_arg \in SeqsUpTo(NameChars, MaxNameLen)
    /\ fn_ret = NotCalled
    /\ Idle

CallGetDuplicateName ==
    /\ fn_ret = NotCalled
    /\ fn_ret' = get_duplicate_name(fn_arg)
    /\ UNCHANGED <<fn_arg, batch_vars>>

SpecName == InitName /\ [][CallGetDuplicateName]_vars

----------------------------------------------------------------------------
(* generate_memberships on its own *)

MembershipProjects == {SPRINTS_PROJECT_GID, "other_project"}

MembershipSections == {BACKLOG_GID, "in_progress", "other_section"}

RawMemberships ==
    {RawMembership(p, s) : p \in MembershipProjects, s \in MembershipSections}

InitMemberships ==
    /\ fn_arg \in {[memberships |-> raw] : raw \in SeqsUpTo(RawMemberships, MaxMemberships)}
    /\ fn_ret = NotCalled
    /\ Idle

CallGenerateMemberships ==
    /\ fn_ret = NotCalled
    /\ fn_ret' = Return(generate_memberships(fn_arg, SPRINTS_PROJECT_GID, BACKLOG_GID))
    /\ UNCHANGED <<fn_arg, batch_vars>>

SpecMemberships == InitMemberships /\ [][CallGenerateMemberships]_vars

----------------------------------------------------------------------------
(* generate_custom_fields on its own *)

FieldGids ==
    {EXPECTED_FIELD_GID, ACTUAL_FIELD_GID, SPRINT_NUMBER_FIELD_GID, "priority"}

NumberValues == {PyNone, PyInt(2), PyInt(5)}

\* Number fields under every id (the two cost fields are number fields);
\* enum fields, text fields and fields of a kind the script does not know
\* ("date") under the ids whose kind is looked at or must be ignored.
CustomFieldValues ==
    {CustomField(g, "number", v, PyNone, PyNone) : g \in FieldGids, v \in NumberValues}
    \cup {CustomField(g, "date", PyNone, PyNone, PyNone) :
             g \in {SPRINT_NUMBER_FIELD_GID, "priority"}}
    \cup {CustomField(g, "enum", PyNone, v, PyNone) :
             g \in {SPRINT_NUMBER_FIELD_GID, "priority"},
             v \in {PyNone, PyGidDict("opt1")}}
    \cup {CustomField("priority", "text", PyNone, PyNone, v) :
             v \in {PyNone, PyStr("t")}}

InitCustomFields ==
    /\ fn_arg \in {[custom_fields |-> raw] : raw \in SeqsUpTo(CustomFieldValues, MaxFields)}
    /\ fn_ret = NotCalled
    /\ Idle

CallGenerateCustomFields ==
    /\ fn_ret = NotCalled
    /\ fn_ret' = generate_custom_fields(fn_arg, EXPECTED_FIELD_GID, ACTUAL_FIELD_GID,
                                        SPRINT_NUMBER_FIELD_GID)
    /\ UNCHANGED <<fn_arg, batch_vars>>

SpecCustomFields == InitCustomFields /\ [][CallGenerateCustomFields]_vars

----------------------------------------------------------------------------
(* Claims about get_duplicate_name, checked under SpecName *)

\* The payload builder under test has been called.
Called == pc = "idle" /\ fn_ret.exc # "NotCalled"

\* The name with its first k characters removed, written index by index.
Without(name, k) == [i \in 1..(Len(name) - k) |-> name[i + k]]

BeginsWithOneDigitPrefixAndSpace(name) ==
    /\ Len(name) >= 4
    /\ name[1] = "["
    /\ IsDigit(name[2])
    /\ name[3] = "]"
    /\ name[4] = " "

\* '[', 0 to 2 ASCII digits, ']' and then a space
BeginsWithPrefixAndSpace(name) ==
    \E k \in 0..2 :
        /\ Len(name) >= k + 3
        /\ name[1] = "["
        /\ \A i \in 2..(k + 1) : IsDigit(name[i])
        /\ name[k + 2] = "]"
        /\ name[k + 3] = " "

\* The decimal text of d + 1 for one digit d.
SuccessorText(d) == IF d = 9 THEN <<"1", "0">> ELSE <<Digits[d + 2]>>

\* C3: for a name that begins with "[", one digit d, "]" and a space,
\* get_duplicate_name returns "[" + (d+1) + "] " followed by the name without
\* its first 4 characters: the text after the prefix is unchanged and d = 9
\* gives the prefix "[10]".
C3_OneDigitPrefixIsIncremented ==
    (Called /\ BeginsWithOneDigitPrefixAndSpace(fn_arg)) =>
        /\ fn_ret.exc = ""
        /\ fn_ret.value = <<"[">> \o SuccessorText(DigitVal(fn_arg[2]))
                          \o <<"]", " ">> \o Without(fn_arg, 4)

C3_Witness ==
    /\ Called
    /\ fn_arg = <<"[", "9", "]", " ", "W">>
    /\ fn_ret = Return(<<"[", "1", "0", "]", " ", "W">>)

\* C4: for a name that does not begin with "[", 0 to 2 digits, "]" and then a
\* space, get_duplicate_name returns exactly "[1] " + name.
C4_UnprefixedNameGetsOne ==
    (Called /\ ~BeginsWithPrefixAndSpace(fn_arg)) =>
        fn_ret = Return(<<"[", "1", "]", " ">> \o fn_arg)

\* C5: get_duplicate_name is total: it returns a string for every input and
\* never fails.
C5_NeverFails == Called => fn_ret.exc = ""

----------------------------------------------------------------------------
(* Claim about generate_memberships, checked under SpecMemberships *)

\* C6: generate_memberships returns a list of the same length and order whose
\* i-th entry is (sprint project id, backlog section id) when the i-th input
\* is on the sprint project, and otherwise has the i-th input's project id and
\* section id; an empty input gives an empty output.
C6_MembershipsRebuiltInPlace ==
    Called =>
        LET raw == fn_arg.memberships
            out == fn_ret.value
        IN  /\ fn_ret.exc = ""
            /\ Len(out) = Len(raw)
            /\ \A i \in 1..Len(raw) :
                   /\ DOMAIN out[i] = {"project", "section"}
                   /\ out[i].project = raw[i].project.gid
                   /\ out[i].section =
                          IF raw[i].project.gid = SPRINTS_PROJECT_GID
                          THEN BACKLOG_GID
                          ELSE raw[i].section.gid

C6_Witness ==
    /\ Called
    /\ fn_arg.memberships = <<RawMembership(SPRINTS_PROJECT_GID, "in_progress"),
                              RawMembership("other_project", "other_section")>>
    /\ fn_ret.value = <<[project |-> SPRINTS_PROJECT_GID, section |-> BACKLOG_GID],
                        [project |-> "other_project", section |-> "other_section"]>>

----------------------------------------------------------------------------
(* Claims about generate_custom_fields, checked under SpecCustomFields *)

\* The last non-null number value among the fields with this id, 0 when none.
LastNumberSeen(raw, gid) ==
    LET hits == {i \in 1..Len(raw) :
                    raw[i].gid = gid /\ raw[i].number_value.t = "int"}
    IN  IF hits = {} THEN 0
        ELSE raw[CHOOSE i \in hits : \A j \in hits : j <= i].number_value.n

KnownKinds == {"enum", "text", "number"}

\* C2: whenever generate_custom_fields returns a mapping, the sprint-number
\* field id and the actual-cost field id are not keys, the expected-cost field
\* id is a key, and its value is max(expected - actual, 0) for the last
\* non-null number values seen under the two cost ids (0 when none was seen).
C2_ExpectedCostCarriedForward ==
    (Called /\ fn_ret.exc = "") =>
        LET raw == fn_arg.custom_fields
            out == fn_ret.value
            expected == LastNumberSeen(raw, EXPECTED_FIELD_GID)
            actual == LastNumberSeen(raw, ACTUAL_FIELD_GID)
        IN  /\ SPRINT_NUMBER_FIELD_GID \notin DOMAIN out
            /\ ACTUAL_FIELD_GID \notin DOMAIN out
            /\ EXPECTED_FIELD_GID \in DOMAIN out
            /\ out[EXPECTED_FIELD_GID].t = "int"
            /\ out[EXPECTED_FIELD_GID].n >= 0
            /\ out[EXPECTED_FIELD_GID].n >= expected - actual
            /\ out[EXPECTED_FIELD_GID].n \in {0, expected - actual}

C2_Witness ==
    /\ Called
    /\ fn_arg.custom_fields =
           <<CustomField(EXPECTED_FIELD_GID, "number", PyInt(5), PyNone, PyNone),
             CustomField(SPRINT_NUMBER_FIELD_GID, "number", PyInt(2), PyNone, PyNone),
             CustomField(ACTUAL_FIELD_GID, "number", PyInt(2), PyNone, PyNone)>>
    /\ fn_ret.exc = ""
    /\ DOMAIN fn_ret.value = {EXPECTED_FIELD_GID}
    /\ fn_ret.value[EXPECTED_FIELD_GID] = PyInt(3)

\* C7 as stated: whenever any custom field of the input has a kind outside
\* {enum, text, number}, the call fails with the assertion instead of
\* returning a mapping.
C7_AnyUnknownKindFails ==
    (Called /\ \E i \in 1..Len(fn_arg.custom_fields) :
                   fn_arg.custom_fields[i].type \notin KnownKinds) =>
        fn_ret.exc = "AssertionError"

\* C7 as amended: whenever a custom field whose id is none of the
\* expected-cost, actual-cost and sprint-number field ids has a kind outside
\* {enum, text, number}, the call fails with the assertion instead of
\* returning a mapping.
C7_UnknownKindOfOtherFieldFails ==
    (Called /\ \E i \in 1..Len(fn_arg.custom_fields) :
                   /\ fn_arg.custom_fields[i].type \notin KnownKinds
                   /\ fn_arg.custom_fields[i].gid \notin
                          {EXPECTED_FIELD_GID, ACTUAL_FIELD_GID,
                           SPRINT_NUMBER_FIELD_GID}) =>
        fn_ret.exc = "AssertionError"

C7_Witness ==
    /\ Called
    /\ fn_arg.custom_fields =
           <<CustomField(EXPECTED_FIELD_GID, "number", PyInt(5), PyNone, PyNone),
             CustomField("priority", "date", PyNone, PyNone, PyNone)>>
    /\ fn_ret = Raise("AssertionError")

----------------------------------------------------------------------------
(* Claims about the batch, checked under Spec *)

Range(seq) == {seq[i] : i \in 1..Len(seq)}

RequestsOf(op) == {i \in 1..Len(calls) : calls[i].op = op}

CreatesFor(t) == {i \in RequestsOf("create_in_workspace") : calls[i].dup_of = t}

DeletesOf(t) == {i \in RequestsOf("delete_task") : calls[i].task_gid = t}

UpdatesOf(t) == {i \in RequestsOf("update_task") : calls[i].task_gid = t}

DuplicatesOf(t) == {d \in DOMAIN remote : remote[d].dup_of = t}

\* The position in the log of the listing of a section that has been listed.
ListingOf(section_gid) ==
    CHOOSE i \in RequestsOf("get_tasks") :
        calls[i].section = section_gid /\ calls[i].ok

SectionIndex(section_gid) ==
    CHOOSE i \in 1..Len(OTHER_GIDS) : OTHER_GIDS[i] = section_gid

\* The in-flight sections duplicate_tasks has listed so far.
ListedInFlight == DOMAIN listed \ {DONE_GID}

NoRemoteCallFailed == \A i \in 1..Len(calls) : calls[i].ok

\* duplicate_tasks has listed the section and is no longer running on it.
DuplicateTasksEnded(section_gid) ==
    /\ section_gid \in ListedInFlight
    /\ \/ pc \in {"raised", "done"}
       \/ sec_idx > SectionIndex(section_gid)

\* duplicate_tasks has listed the section and has returned.
DuplicateTasksReturned(section_gid) ==
    /\ section_gid \in ListedInFlight
    /\ sec_idx > SectionIndex(section_gid)

\* The create payload the three builders give for a task as it was listed.
DuplicationSpec(t) ==
    LET task == ListedTask(remote0, t) IN
    [name |-> get_duplicate_name(task.name).value,
     assignee |-> task.assignee,
     memberships |-> generate_memberships(task, SPRINTS_PROJECT_GID, BACKLOG_GID),
     custom_fields |->
         generate_custom_fields(task, EXPECTED_FIELD_GID, ACTUAL_FIELD_GID,
                                SPRINT_NUMBER_FIELD_GID).value]

\* The original is gone and exactly one duplicate, built by the three
\* builders and submitted before the delete request, took its place.
Duplicated(t) ==
    /\ t \notin DOMAIN remote
    /\ Cardinality(CreatesFor(t)) = 1
    /\ Cardinality(DeletesOf(t)) = 1
    /\ \A i \in CreatesFor(t) :
           /\ calls[i].payload = DuplicationSpec(t)
           /\ \A j \in DeletesOf(t) : i < j
    /\ Cardinality(DuplicatesOf(t)) = 1
    /\ \A d \in DuplicatesOf(t) :
           /\ remote[d].name = DuplicationSpec(t).name
           /\ remote[d].assignee = DuplicationSpec(t).assignee
           /\ remote[d].memberships =
                  AsRawMemberships(DuplicationSpec(t).memberships)
           /\ remote[d].custom_fields = DuplicationSpec(t).custom_fields

\* The requests after the listing are create, delete for the first listed
\* task, then create, delete for the second, and so on.
HandledInListingOrder(section_gid) ==
    LET l == listed[section_gid]
        k == ListingOf(section_gid)
    IN  \A n \in 1..Len(l) :
            /\ k + 2 * n <= Len(calls)
            /\ calls[k + 2 * n - 1].op = "create_in_workspace"
            /\ calls[k + 2 * n - 1].dup_of = l[n]
            /\ calls[k + 2 * n].op = "delete_task"
            /\ calls[k + 2 * n].task_gid = l[n]

DuplicateTasksContract(section_gid) ==
    /\ \A t \in Range(listed[section_gid]) : Duplicated(t)
    /\ HandledInListingOrder(section_gid)

\* C1: when duplicate_tasks runs on a section and no remote call fails, every
\* task listed in the section has its original deleted and exactly one new
\* task created for it, carrying the name, memberships and custom fields of
\* the three builders and the original's assignee; the create request comes
\* before the delete request and the tasks are handled in listing order.
C1_EveryListedTaskIsDuplicated ==
    \A section_gid \in ListedInFlight :
        (DuplicateTasksEnded(section_gid) /\ NoRemoteCallFailed) =>
            DuplicateTasksContract(section_gid)

\* What does hold of duplicate_tasks: the same, once it has returned.
DuplicateTasksReturnsDuplicated ==
    \A section_gid \in ListedInFlight :
        DuplicateTasksReturned(section_gid) => DuplicateTasksContract(section_gid)

\* C8: a failed remote call is neither caught nor retried and no remote call
\* follows it: the failed request is the last one of the log and the run has
\* ended with its error; every task no delete or update request was submitted
\* for is still there, unchanged; no later section and no done-section
\* completion has been started.
C8_NothingFollowsAFailedCall ==
    /\ \A i \in 1..Len(calls) :
           ~calls[i].ok => /\ i = Len(calls)
                           /\ pc = "raised"
                           /\ exc = "RemoteError"
    /\ (pc = "raised") =>
           /\ \A t \in DOMAIN remote0 :
                  (DeletesOf(t) = {} /\ UpdatesOf(t) = {}) =>
                      t \in DOMAIN remote /\ remote[t] = remote0[t]
           /\ \A i \in 1..Len(OTHER_GIDS) :
                  i > sec_idx => OTHER_GIDS[i] \notin DOMAIN listed
           /\ (sec_idx <= Len(OTHER_GIDS)) =>
                  DONE_GID \notin DOMAIN listed /\ RequestsOf("update_task") = {}

\* A create request failed with a task of the done section still to complete.
C8_Witness ==
    /\ pc = "raised"
    /\ exc = "RemoteError"
    /\ calls # <<>>
    /\ calls[Len(calls)].op = "create_in_workspace"
    /\ ~calls[Len(calls)].ok
    /\ section # <<>>
    /\ \E t \in TasksInSection(remote, DONE_GID) : ~remote[t].completed

\* C9: complete_tasks submits one update request per listed task, each
\* setting only the completed flag to true (at most one while it runs, exactly
\* one once it has returned); it creates and deletes no task, and each listed
\* task keeps its identity, name, assignee, memberships and custom fields.
C9_CompleteTasksOnlySetsCompleted ==
    /\ \A i \in RequestsOf("update_task") :
           /\ DONE_GID \in DOMAIN listed
           /\ i > ListingOf(DONE_GID)
           /\ calls[i].task_gid \in Range(listed[DONE_GID])
           /\ calls[i].payload = [completed |-> TRUE]
    /\ (DONE_GID \in DOMAIN listed) =>
           /\ \A i \in 1..Len(calls) :
                  i > ListingOf(DONE_GID) => calls[i].op = "update_task"
           /\ \A t \in Range(listed[DONE_GID]) :
                  /\ Cardinality(UpdatesOf(t)) <= 1
                  /\ (pc = "done") => Cardinality(UpdatesOf(t)) = 1
                  /\ (pc = "done") => remote[t].completed
                  /\ t \in DOMAIN remote
                  /\ DOMAIN remote[t] = DOMAIN remote0[t]
                  /\ \A f \in DOMAIN remote0[t] \ {"completed"} :
                         remote[t][f] = remote0[t][f]
           /\ \A t \in DOMAIN remote \ Range(listed[DONE_GID]) :
                  ~remote[t].completed

C9_Witness ==
    /\ pc = "done"
    /\ DONE_GID \in DOMAIN listed
    /\ \E t \in Range(listed[DONE_GID]) :
           /\ remote[t].completed
           /\ ~remote0[t].completed
           /\ remote[t].assignee = PyGidDict("user1")
           /\ UpdatesOf(t) # {}

\* C10: no task is lost: in every state of a run, ended or not, a delete
\* request for an original was submitted only after a create request for its
\* duplicate had succeeded, and every task listed by duplicate_tasks has its
\* original or its duplicate present in the remote service.
C10_NoTaskIsLost ==
    /\ \A j \in RequestsOf("delete_task") :
           \E i \in CreatesFor(calls[j].task_gid) : i < j /\ calls[i].ok
    /\ \A section_gid \in ListedInFlight :
           \A t \in Range(listed[section_gid]) :
               t \in DOMAIN remote \/ DuplicatesOf(t) # {}

\* An original has been deleted and its duplicate is in the remote service.
C10_Witness ==
    \E section_gid \in ListedInFlight :
        \E t \in Range(listed[section_gid]) :
            /\ t \notin DOMAIN remote
            /\ DuplicatesOf(t) # {}
            /\ \E j \in DeletesOf(t) : calls[j].ok

====
